---- MODULE Spec2Model ----
(***************************************************************************)
(* Model of the n^d tic-tac-toe engine of src/tictactoe.py together with   *)
(* the hypercube structure (lines and scopes) of src/hypercube.py that its *)
(* constructor builds.                                                     *)
(***************************************************************************)
EXTENDS Integers, Sequences, FiniteSets, TLC

\* ------------------------------------------------------------------ bounds
MaxD == 2
MaxN == 3
MaxMpt == 2
\* boards of at most MaxCells cells are played
MaxCells == 4
\* hypercubes h(d, n) of at most MaxCubeCells cells are enumerated
MaxCubeD == 3
MaxCubeN == 4
MaxCubeCells == 64
\* legal play: boards of at most MaxPlayCells cells, MaxPlayMoves moves a game
MaxPlayCells == 9
MaxPlayMoves == 5
\* the side of the one large board that is constructed (and not played)
MaxBigN == 10
\* move strings of at most MaxStrLen characters are parsed
MaxStrLen == 3

\* --------------------------------------------------------------- constants
MOVE_BASE == 99

WIN_P1 == "WIN_P1"
WIN_P2 == "WIN_P2"
TIE == "TIE"
IN_PROGRESS == "IN_PROGRESS"
GameState == {WIN_P1, WIN_P2, TIE, IN_PROGRESS}

\* ------------------------------------------------------- generic helpers
RECURSIVE Pow(_, _)
Pow(b, e) == IF e = 0 THEN 1 ELSE b * Pow(b, e - 1)

RECURSIVE Flatten(_)
Flatten(ss) == IF ss = <<>> THEN <<>> ELSE Head(ss) \o Flatten(Tail(ss))

Abs(v) == IF v < 0 THEN -v ELSE v

\* index tuples of a k-dimensional array of side n (0-based components)
Idx(k, n) == [1..k -> 0..(n - 1)]

\* ------------------------------------------- hypercube structure (numpy)
\* value of np.arange(n ** d).reshape([n] * d) at position c (C order)
RECURSIVE ravel(_, _)
ravel(c, n) == IF c = <<>> THEN 0
               ELSE Head(c) * Pow(n, Len(c) - 1) + ravel(Tail(c), n)

arange_reshape(d, n) == [c \in Idx(d, n) |-> ravel(c, n)]

\* np.unravel_index(v, [n] * d)
unravel_index(v, d, n) == [i \in 1..d |-> (v \div Pow(n, d - i)) % n]

\* it.combinations(range(lo, hi + 1), r), in the order itertools yields them
RECURSIVE combinations_from(_, _, _)
combinations_from(lo, hi, r) ==
    IF r = 0 THEN << <<>> >>
    ELSE IF lo > hi THEN <<>>
    ELSE LET with == combinations_from(lo + 1, hi, r - 1)
         IN  [k \in 1..Len(with) |-> <<lo>> \o with[k]]
             \o combinations_from(lo + 1, hi, r)

combinations(d, r) == combinations_from(0, d - 1, r)

\* it.product(range(n), repeat = m), in the order itertools yields them
product(n, m) ==
    [k \in 1..Pow(n, m) |-> [j \in 1..m |-> ((k - 1) \div Pow(n, m - j)) % n]]

\* An ndarray view of the board is modelled by the map from its index tuples
\* to the positions of the base array it reads.
\* arr.diagonal(): axes 0 and 1 are replaced by a new last axis
diagonal(view, k, n) ==
    [ix \in Idx(k - 1, n) |->
        view[<<ix[k - 1], ix[k - 1]>> \o SubSeq(ix, 1, k - 2)]]

\* np.flip that leaves the array as it is
flip0_none(view, k, n) == view

\* np.flip(arr, 0)
flip0(view, k, n) ==
    [ix \in Idx(k, n) |-> view[[ix EXCEPT ![1] = n - 1 - @]]]

RECURSIVE get_diagonals_np(_, _, _)
get_diagonals_np(view, k, n) ==
    IF k = 1 THEN << [j \in 1..n |-> view[<<j - 1>>]] >>
    ELSE get_diagonals_np(diagonal(view, k, n), k - 1, n)
         \o get_diagonals_np(diagonal(flip0(view, k, n), k, n), k - 1, n)

\* slice_ndarray(arr, axes, coords): axes is the ascending tuple of the fixed
\* axes (0-based), coords their values; the view over the remaining axes
slice_ndarray(view, d, n, axes, coords) ==
    LET fixed == {axes[j] : j \in 1..Len(axes)}
        free  == {a \in 0..(d - 1) : a \notin fixed}
        rank(a, S) == Cardinality({b \in S : b < a})
        full(ix) == [a \in 1..d |->
                        IF (a - 1) \in fixed
                        THEN coords[rank(a - 1, fixed) + 1]
                        ELSE ix[rank(a - 1, free) + 1]]
    IN  [ix \in Idx(Cardinality(free), n) |-> view[full(ix)]]

\* the ascending tuple of range(d) minus the members of comb
other_axes(d, comb) ==
    LET inside == {comb[j] : j \in 1..Len(comb)}
        free == {a \in 0..(d - 1) : a \notin inside}
        rank(a) == Cardinality({b \in free : b < a})
    IN  [j \in 1..Cardinality(free) |-> CHOOSE a \in free : rank(a) = j - 1]

\* get_lines_i_np that slices at the first cell of the other dimensions only
get_lines_i_np_first_cell(view, d, n, i) ==
    LET combs == combinations(d, i + 1)
        cells == SubSeq(product(n, d - i - 1), 1, 1)
    IN  Flatten([p \in 1..Len(combs) |->
            Flatten([q \in 1..Len(cells) |->
                get_diagonals_np(
                    slice_ndarray(view, d, n, other_axes(d, combs[p]), cells[q]),
                    i + 1, n)])])

\* get_lines_i_np(arr, i): the lines that span i + 1 dimensions
get_lines_i_np(view, d, n, i) ==
    LET combs == combinations(d, i + 1)
        cells == product(n, d - i - 1)
    IN  Flatten([p \in 1..Len(combs) |->
            Flatten([q \in 1..Len(cells) |->
                get_diagonals_np(
                    slice_ndarray(view, d, n, other_axes(d, combs[p]), cells[q]),
                    i + 1, n)])])

get_lines_grouped_np(view, d, n) ==
    [i \in 1..d |-> get_lines_i_np(view, d, n, i - 1)]

get_lines_np(view, d, n) == Flatten(get_lines_grouped_np(view, d, n))

\* get_scopes_np that stops one value short of the end of every line
get_scopes_np_short(lines, arr, d, n) ==
    LET keys == {unravel_index(arr[lines[k][j]], d, n) :
                    k \in 1..Len(lines), j \in 1..(n - 1)}
        on(cell) == SelectSeq(lines, LAMBDA line :
                        \E j \in 1..(n - 1) :
                            unravel_index(arr[line[j]], d, n) = cell)
    IN  [cell \in keys |-> on(cell)]

\* get_scopes_np(lines, d): every line is appended to the scope of the cell
\* that each of its n values unravels to; the lines are taken in their order,
\* the list being halved so that the recursion stays shallow on long lists
RECURSIVE scope_of(_, _, _, _, _)
scope_of(cell, lines, arr, d, n) ==
    IF lines = <<>> THEN <<>>
    ELSE IF Len(lines) = 1
    THEN LET line == Head(lines)
             hits == Cardinality({j \in 1..n :
                        unravel_index(arr[line[j]], d, n) = cell})
         IN  [h \in 1..hits |-> line]
    ELSE LET half == Len(lines) \div 2
         IN  scope_of(cell, SubSeq(lines, 1, half), arr, d, n)
             \o scope_of(cell, SubSeq(lines, half + 1, Len(lines)), arr, d, n)

get_scopes_np(lines, arr, d, n) ==
    LET keys == {unravel_index(arr[lines[k][j]], d, n) :
                    k \in 1..Len(lines), j \in 1..n}
    IN  [cell \in keys |-> scope_of(cell, lines, arr, d, n)]

\* structure_np(d, n, zeros = False, OFFSET = MOVE_BASE): lines and scopes
structure_np(d, n) ==
    LET arr   == arange_reshape(d, n)
        base  == [c \in Idx(d, n) |-> c]
        lines == get_lines_np(base, d, n)
    IN  [lines |-> lines, scopes |-> get_scopes_np(lines, arr, d, n)]

\* ------------------------------------------------------- line counts
\* scipy.special.comb(d, i, True)
RECURSIVE comb(_, _)
comb(d, i) ==
    IF i = 0 THEN 1
    ELSE IF d = 0 THEN 0
    ELSE comb(d - 1, i - 1) + comb(d - 1, i)

\* list(num_lines_grouped(d, n)): the number of lines spanning i dimensions
num_lines_grouped(d, n) ==
    [i \in 1..d |-> comb(d, i) * Pow(n, d - i) * Pow(2, i - 1)]

RECURSIVE sum(_)
sum(xs) == IF xs = <<>> THEN 0 ELSE Head(xs) + sum(Tail(xs))

num_lines(d, n) == sum(num_lines_grouped(d, n))

\* ------------------------------------- hypercube structure (coordinates)
\* it.product([0, n - 1], repeat = d), in the order itertools yields them
corners_all(d, n) ==
    [k \in 1..Pow(2, d) |->
        [j \in 1..d |-> (((k - 1) \div Pow(2, d - j)) % 2) * (n - 1)]]

\* get_diagonals_coord that starts a diagonal at every corner
get_diagonals_coord_all_corners(d, n) ==
    LET corners == corners_all(d, n)
    IN  [k \in 1..Len(corners) |->
            [i \in 1..n |-> [j \in 1..d |-> Abs(corners[k][j] - (i - 1))]]]

\* get_diagonals_coord that walks from the corner without abs()
get_diagonals_coord_no_abs(d, n) ==
    LET corners_0 == SelectSeq(corners_all(d, n), LAMBDA corner : corner[1] = 0)
    IN  [k \in 1..Len(corners_0) |->
            [i \in 1..n |-> [j \in 1..d |-> corners_0[k][j] - (i - 1)]]]

\* get_diagonals_coord(d, n): one diagonal from each corner whose first
\* coordinate is 0
get_diagonals_coord(d, n) ==
    LET corners_0 == SelectSeq(corners_all(d, n), LAMBDA corner : corner[1] = 0)
    IN  [k \in 1..Len(corners_0) |->
            [i \in 1..n |-> [j \in 1..d |-> Abs(corners_0[k][j] - (i - 1))]]]

\* list.insert(p, v): before position p (0-based), at the end if p is past it
list_insert(tl, p, v) ==
    LET at == IF p > Len(tl) THEN Len(tl) ELSE p
    IN  SubSeq(tl, 1, at) \o <<v>> \o SubSeq(tl, at + 1, Len(tl))

\* insert_into_tuple(tup, pos, val), pos the ascending positions: the values
\* are inserted one after the other in the order of their positions
RECURSIVE insert_into_tuple(_, _, _)
insert_into_tuple(tup, pos, val) ==
    IF pos = <<>> THEN tup
    ELSE insert_into_tuple(list_insert(tup, Head(pos), Head(val)),
                           Tail(pos), Tail(val))

\* get_lines_i_coord(d, n, i): the lines that span i + 1 dimensions
get_lines_i_coord(d, n, i) ==
    LET diagonals == get_diagonals_coord(i + 1, n)
        combs == combinations(d, i + 1)
        cells == product(n, d - i - 1)
    IN  Flatten([p \in 1..Len(combs) |->
            Flatten([q \in 1..Len(cells) |->
                [k \in 1..Len(diagonals) |->
                    [j \in 1..n |->
                        insert_into_tuple(diagonals[k][j],
                                          other_axes(d, combs[p]), cells[q])]]])])

get_lines_grouped_coord(d, n) ==
    [i \in 1..d |-> get_lines_i_coord(d, n, i - 1)]

get_lines_coord(d, n) == Flatten(get_lines_grouped_coord(d, n))

\* cell in line
cell_in(cell, line) == \E j \in 1..Len(line) : line[j] = cell

\* get_scopes_coord that tests the first cell of a line only
get_scopes_coord_first_cell(lines, d) ==
    LET n == Len(lines[1])
        on(cell) == SelectSeq(lines, LAMBDA line : line[1] = cell)
    IN  [cell \in {c \in Idx(d, n) : on(c) # <<>>} |-> on(cell)]

\* get_scopes_coord(lines, d): the lines that hold the cell, in list order;
\* a cell on no line gets no key
get_scopes_coord(lines, d) ==
    LET n == Len(lines[1])
        on(cell) == SelectSeq(lines, LAMBDA line : cell_in(cell, line))
    IN  [cell \in {c \in Idx(d, n) : on(c) # <<>>} |-> on(cell)]

\* scopes_size_cell(scopes): the cells of every scope size
scopes_size_cell(scopes) ==
    [size \in {Len(scopes[c]) : c \in DOMAIN scopes} |->
        {c \in DOMAIN scopes : Len(scopes[c]) = size}]

\* scopes_size(scopes): Counter of the scope lengths
scopes_size(scopes) ==
    [size \in {Len(scopes[c]) : c \in DOMAIN scopes} |->
        Cardinality({c \in DOMAIN scopes : Len(scopes[c]) = size})]

\* ------------------------------------------- enumerated lines and scopes
\* get_lines_enum_np(hc): the lines keyed 0, 1, ...; key idx is held at
\* position idx + 1
get_lines_enum_np(arr, d, n) == get_lines_np(arr, d, n)

get_lines_enum_coord(d, n) == get_lines_coord(d, n)

\* scopes[cell].append(idx) on a defaultdict(list)
scopes_append(scopes, cell, idx) ==
    [c \in DOMAIN scopes \cup {cell} |->
        IF c = cell
        THEN (IF cell \in DOMAIN scopes THEN scopes[cell] ELSE <<>>) \o <<idx>>
        ELSE scopes[c]]

\* get_scopes_enum_np, lines 678-680: the key of one line is appended to the
\* scope of the cell each of its values line[j], j = from .. n - 1, unravels to
RECURSIVE get_scopes_enum_np_line(_, _, _, _, _, _)
get_scopes_enum_np_line(scopes, line, idx, d, n, from) ==
    IF from >= n THEN scopes
    ELSE get_scopes_enum_np_line(
             scopes_append(scopes, unravel_index(line[from + 1], d, n), idx),
             line, idx, d, n, from + 1)

\* get_scopes_enum_coord_cell that leaves the loop at the first line found
get_scopes_enum_coord_cell_break(scopes, lines, cell) ==
    LET hits == SelectSeq([k \in 1..Len(lines) |-> k - 1],
                          LAMBDA idx : cell_in(cell, lines[idx + 1]))
    IN  IF hits = <<>> THEN scopes
        ELSE [c \in DOMAIN scopes \cup {cell} |->
                 IF c = cell
                 THEN (IF cell \in DOMAIN scopes THEN scopes[cell] ELSE <<>>)
                      \o <<Head(hits)>>
                 ELSE scopes[c]]

\* get_scopes_enum_coord, lines 1134-1136: the keys of the lines that hold
\* the cell are appended to its scope, in key order
get_scopes_enum_coord_cell(scopes, lines, cell) ==
    LET hits == SelectSeq([k \in 1..Len(lines) |-> k - 1],
                          LAMBDA idx : cell_in(cell, lines[idx + 1]))
    IN  IF hits = <<>> THEN scopes
        ELSE [c \in DOMAIN scopes \cup {cell} |->
                 IF c = cell
                 THEN (IF cell \in DOMAIN scopes THEN scopes[cell] ELSE <<>>)
                      \o hits
                 ELSE scopes[c]]

\* ------------------------------------------------- the scope of one cell
\* increment_cell_coord(cell, pos, incr, add): pos holds distinct 0-based
\* positions
increment_cell_coord(cell, pos, incr, add) ==
    [a \in 1..Len(cell) |->
        IF \E i \in 1..Len(pos) : pos[i] = a - 1
        THEN LET i == CHOOSE i \in 1..Len(pos) : pos[i] = a - 1
             IN  IF add THEN cell[a] + incr[i] ELSE cell[a] - incr[i]
        ELSE cell[a]]

\* remove_invalid_cells_coord that tests coord < n only
remove_invalid_cells_coord_upper(n, line) ==
    SelectSeq(line, LAMBDA cell : \A a \in 1..Len(cell) : cell[a] < n)

\* remove_invalid_cells_coord(n, line): the cells with every coord in range(n)
remove_invalid_cells_coord(n, line) ==
    SelectSeq(line, LAMBDA cell : \A a \in 1..Len(cell) : cell[a] \in 0..(n - 1))

\* it.product([-1, 1], repeat = m), in the order itertools yields them
product_signs(m) ==
    [k \in 1..Pow(2, m) |->
        [j \in 1..m |-> IF ((k - 1) \div Pow(2, m - j)) % 2 = 0 THEN -1 ELSE 1]]

\* get_scope_cell_coord, lines 1231-1242: the increments j whose negation was
\* not kept before them
RECURSIVE seen_after(_, _)
seen_after(incr, seen) ==
    IF incr = <<>> THEN seen
    ELSE LET j == Head(incr)
             j_neg == [x \in 1..Len(j) |-> -j[x]]
         IN  IF \E s \in 1..Len(seen) : seen[s] = j_neg
             THEN seen_after(Tail(incr), seen)
             ELSE seen_after(Tail(incr), Append(seen, j))

\* get_scope_cell_coord, lines 1236-1248: the deque after the loop over k,
\* cell + j * (n - 1) at the left end and cell - j * (n - 1) at the right end
d_line(n, cell, i_comb, j) ==
    [p \in 1..(2 * n - 1) |->
        IF p < n
        THEN increment_cell_coord(cell, i_comb,
                                  [x \in 1..Len(j) |-> j[x] * (n - p)], TRUE)
        ELSE IF p = n THEN cell
        ELSE increment_cell_coord(cell, i_comb,
                                  [x \in 1..Len(j) |-> j[x] * (p - n)], FALSE)]

\* get_scope_cell_coord(d, n, cell): the lines it yields, in order
get_scope_cell_coord(d, n, cell) ==
    Flatten([i \in 1..d |->
        LET combs == combinations(d, i)
            seen == seen_after(product_signs(i), <<>>)
        IN  Flatten([p \in 1..Len(combs) |->
                SelectSeq(
                    [s \in 1..Len(seen) |->
                        remove_invalid_cells_coord(
                            n, d_line(n, cell, combs[p], seen[s]))],
                    LAMBDA line : Len(line) = n)])])

\* --------------------------------------------- comparing the two builders
\* sorted(xs) of a list of integers
RECURSIVE sorted(_)
sorted(xs) ==
    IF xs = <<>> THEN <<>>
    ELSE LET x == Head(xs)
             rest == sorted(Tail(xs))
         IN  SelectSeq(rest, LAMBDA y : y < x) \o <<x>>
             \o SelectSeq(rest, LAMBDA y : y >= x)

\* _lines_np_coord_check(d, n), from the two lists of lines it builds
_lines_np_coord_check(lines_np, lines_coord, d, n) ==
    LET arr == arange_reshape(d, n)
        t_np == [k \in 1..Len(lines_np) |-> sorted(lines_np[k])]
        t_coord == [k \in 1..Len(lines_coord) |->
                       sorted([j \in 1..Len(lines_coord[k]) |->
                                  arr[lines_coord[k][j]]])]
    IN  {t_np[k] : k \in 1..Len(t_np)} = {t_coord[k] : k \in 1..Len(t_coord)}

\* ------------------------------------------------ move strings (str_to_tuple)
Digits == {"0", "1", "2", "3", "4", "5", "6", "7", "8", "9"}
DigitChars == <<"0", "1", "2", "3", "4", "5", "6", "7", "8", "9">>
\* int(ch) for a digit character
int(ch) == (CHOOSE k \in 1..10 : DigitChars[k] = ch) - 1

\* re.findall(r'\d+', cell), each run converted by int()
RECURSIVE digit_runs(_, _, _)
digit_runs(s, cur, open) ==
    IF s = <<>> THEN (IF open THEN <<cur>> ELSE <<>>)
    ELSE IF Head(s) \in Digits
         THEN digit_runs(Tail(s), cur * 10 + int(Head(s)), TRUE)
         ELSE (IF open THEN <<cur>> ELSE <<>>) \o digit_runs(Tail(s), 0, FALSE)

\* str_to_tuple that reads a digit-only string digit by digit on every board
str_to_tuple_any_n(dd, nn, cell, offset) ==
    LET nd == {j \in 1..Len(cell) : cell[j] \notin Digits}
        tup == IF nd = {}
               THEN [j \in 1..Len(cell) |-> int(cell[j]) - offset]
               ELSE LET runs == digit_runs(cell, 0, FALSE)
                    IN  [j \in 1..Len(runs) |-> runs[j] - offset]
    IN  IF Len(tup) # dd THEN [raised |-> "ValueError", tup |-> <<>>]
        ELSE IF \A j \in 1..Len(tup) : tup[j] \in 0..(nn - 1)
             THEN [raised |-> "none", tup |-> tup]
             ELSE [raised |-> "ValueError", tup |-> <<>>]

\* str_to_tuple(d, n, cell, offset): the tuple, or ValueError
str_to_tuple(dd, nn, cell, offset) ==
    LET nd == {j \in 1..Len(cell) : cell[j] \notin Digits}
        tup == IF nd = {}
               THEN [j \in 1..Len(cell) |-> int(cell[j]) - offset]
               ELSE LET runs == digit_runs(cell, 0, FALSE)
                    IN  [j \in 1..Len(runs) |-> runs[j] - offset]
    IN  IF nd = {} /\ nn > 9 THEN [raised |-> "ValueError", tup |-> <<>>]
        ELSE IF Len(tup) # dd THEN [raised |-> "ValueError", tup |-> <<>>]
        ELSE IF \A j \in 1..Len(tup) : tup[j] \in 0..(nn - 1)
             THEN [raised |-> "none", tup |-> tup]
             ELSE [raised |-> "ValueError", tup |-> <<>>]

\* ----------------------------------------------------- numpy board access
\* the cells that board[t] selects, for an index tuple t numpy accepts
np_selected(g, t) ==
    {c \in DOMAIN g.board :
        \A i \in 1..Len(t) : c[i] = (IF t[i] < 0 THEN t[i] + g.n ELSE t[i])}

\* numpy raises IndexError for too many indices or an index outside [-n, n)
np_index_ok(g, t) ==
    /\ Len(t) <= g.d
    /\ \A i \in 1..Len(t) : t[i] >= -g.n /\ t[i] < g.n

\* board[t] = val
np_setitem(g, t, val) ==
    [c \in DOMAIN g.board |-> IF c \in np_selected(g, t) THEN val ELSE g.board[c]]

\* ------------------------------------------------------------ the engine
Raise(g, e) == [game |-> g, raised |-> e]
Return(g) == [game |-> g, raised |-> "none"]

\* reset that forgets the per-player move counts
reset_keeps_counts(g) ==
    [g EXCEPT !.state = IN_PROGRESS,
              !.board = [c \in DOMAIN g.board |-> 0],
              !.win_line = <<>>,
              !.active_player = 0,
              !.active_moves = 0,
              !.moves = <<>>]

\* TicTacToe.reset
reset(g) ==
    [g EXCEPT !.state = IN_PROGRESS,
              !.board = [c \in DOMAIN g.board |-> 0],
              !.win_line = <<>>,
              !.active_player = 0,
              !.active_moves = 0,
              !.moves = <<>>,
              !.moves_played = <<0, 0>>]

\* TicTacToe.__init__(d, n, moves_per_turn)
new_game(dd, nn, mpt) ==
    reset([d |-> dd, n |-> nn, moves_per_turn |-> mpt,
           board |-> arange_reshape(dd, nn),
           scopes |-> structure_np(dd, nn).scopes,
           state |-> IN_PROGRESS, win_line |-> <<>>,
           active_player |-> 0, active_moves |-> 0,
           moves |-> <<>>, moves_played |-> <<0, 0>>])

\* get_scopes_np, line 445: n = lines[0].size is an IndexError when the cube
\* has no lines (d = 0)
structure_np_raises(dd, nn) ==
    get_lines_np([c \in Idx(dd, nn) |-> c], dd, nn) = <<>>

\* the attributes when __init__ did not return: no object exists
no_game(dd, nn, mpt) ==
    [d |-> dd, n |-> nn, moves_per_turn |-> mpt,
     board |-> <<>>, scopes |-> <<>>,
     state |-> IN_PROGRESS, win_line |-> <<>>,
     active_player |-> 0, active_moves |-> 0,
     moves |-> <<>>, moves_played |-> <<0, 0>>]

\* TicTacToe(d, n, moves_per_turn): __init__ lets every error of
\* structure_np pass (only MemoryError is named, and re-raised)
construct(dd, nn, mpt) ==
    IF structure_np_raises(dd, nn) THEN Raise(no_game(dd, nn, mpt), "IndexError")
    ELSE Return(new_game(dd, nn, mpt))

\* is_tie that waits for one move more than the board has cells
is_tie_past_full(g) ==
    IF g.state = TIE THEN TRUE
    ELSE Len(g.moves) = Pow(g.n, g.d) + 1

\* TicTacToe.is_tie
is_tie(g) ==
    IF g.state = TIE THEN TRUE
    ELSE Len(g.moves) = Pow(g.n, g.d)

\* line_full that counts the marks of both players together
line_full_any_player(g, line) ==
    Cardinality({j \in 1..Len(line) : Abs(g.board[line[j]]) > MOVE_BASE}) = g.n

\* sum(line > MOVE_BASE) == n or sum(line < -MOVE_BASE) == n, the line read
\* through the board
line_full(g, line) ==
    \/ Cardinality({j \in 1..Len(line) : g.board[line[j]] > MOVE_BASE}) = g.n
    \/ Cardinality({j \in 1..Len(line) : g.board[line[j]] < -MOVE_BASE}) = g.n

\* self.scopes[t_cell] of a defaultdict(list): a missing key reads as []
scopes_get(g, t) == IF t \in DOMAIN g.scopes THEN g.scopes[t] ELSE <<>>

\* ... and the read inserts the missing key
scopes_touch(g, t) ==
    IF t \in DOMAIN g.scopes THEN g.scopes
    ELSE [k \in DOMAIN g.scopes \cup {t} |->
             IF k = t THEN <<>> ELSE g.scopes[k]]

\* is_win that starts to look at the board one move later
is_win_late(g) ==
    IF g.state = WIN_P1 \/ g.state = WIN_P2 THEN [result |-> TRUE, game |-> g]
    ELSE IF g.state = TIE THEN [result |-> FALSE, game |-> g]
    ELSE IF Len(g.moves) < 2 * g.n THEN [result |-> FALSE, game |-> g]
    ELSE LET t_cell == g.moves[Len(g.moves)].Cell
             scope  == IF t_cell \in DOMAIN g.scopes THEN g.scopes[t_cell] ELSE <<>>
             full   == {k \in 1..Len(scope) :
                          \/ \A j \in 1..g.n : g.board[scope[k][j]] > MOVE_BASE
                          \/ \A j \in 1..g.n : g.board[scope[k][j]] < -MOVE_BASE}
         IN  IF full = {} THEN [result |-> FALSE, game |-> g]
             ELSE [result |-> TRUE,
                   game |-> [g EXCEPT !.win_line =
                                scope[CHOOSE k \in full : \A h \in full : k <= h]]]

\* TicTacToe.is_win: result, and the engine with win_line (and scopes) updated
is_win(g) ==
    IF g.state = WIN_P1 \/ g.state = WIN_P2 THEN [result |-> TRUE, game |-> g]
    ELSE IF g.state = TIE THEN [result |-> FALSE, game |-> g]
    ELSE IF Len(g.moves) < 2 * g.n - 1 THEN [result |-> FALSE, game |-> g]
    ELSE LET t_cell == g.moves[Len(g.moves)].Cell
             scope  == scopes_get(g, t_cell)
             g1     == [g EXCEPT !.scopes = scopes_touch(g, t_cell)]
             full   == {k \in 1..Len(scope) : line_full(g, scope[k])}
         IN  IF full = {} THEN [result |-> FALSE, game |-> g1]
             ELSE LET first == CHOOSE k \in full : \A h \in full : k <= h
                  IN  [result |-> TRUE,
                       game |-> [g1 EXCEPT !.win_line = scope[first]]]

\* TicTacToe.is_win, lines 292-297: the scan of the scope of the last move
is_win_scan(g) ==
    LET scope == scopes_get(g, g.moves[Len(g.moves)].Cell)
    IN  \E k \in 1..Len(scope) : line_full(g, scope[k])

\* get_lines_state of src/TicTacToe.py: the index of the first line of
\* self.lines that one player fills, or -1
get_lines_state(g, lines) ==
    LET full == {c \in 0..(Len(lines) - 1) : line_full(g, lines[c + 1])}
    IN  IF full = {} THEN -1
        ELSE CHOOSE c \in full : \A h \in full : c <= h

\* TicTacToe.move, lines 262-271: win or tie after the move
move_outcome(g) ==
    LET w == is_win(g)
    IN  IF w.result
        THEN [w.game EXCEPT !.state =
                 IF w.game.active_player = 1 THEN WIN_P2 ELSE WIN_P1]
        ELSE IF is_tie(w.game) THEN [w.game EXCEPT !.state = TIE]
        ELSE [w.game EXCEPT !.state = IN_PROGRESS]

\* move_apply that passes the turn after every move
move_apply_single_turn(g, t_cell) ==
    LET p     == g.active_player
        count == g.moves_played[p + 1] + 1
        sgn   == IF p = 1 THEN -1 ELSE 1
    IN  [g EXCEPT !.moves_played[p + 1] = count,
                  !.board = np_setitem(g, t_cell, sgn * (count + MOVE_BASE)),
                  !.moves = Append(g.moves, [Player |-> p, Cell |-> t_cell]),
                  !.active_moves = 0,
                  !.active_player = 1 - p]

\* TicTacToe.move, lines 250-260: the mark, the move record and the turn
move_apply(g, t_cell) ==
    LET p     == g.active_player
        count == g.moves_played[p + 1] + 1
        sgn   == IF p = 1 THEN -1 ELSE 1
        am    == g.active_moves + 1
    IN  [g EXCEPT !.moves_played[p + 1] = count,
                  !.board = np_setitem(g, t_cell, sgn * (count + MOVE_BASE)),
                  !.moves = Append(g.moves, [Player |-> p, Cell |-> t_cell]),
                  !.active_moves = IF am = g.moves_per_turn THEN 0 ELSE am,
                  !.active_player = IF am = g.moves_per_turn THEN 1 - p ELSE p]

\* TicTacToe.move, lines 229-237: the cell argument resolved to an index
\* tuple and read from the board
move_resolve(g, cell, offset) ==
    LET parsed == IF cell.str THEN str_to_tuple(g.d, g.n, cell.val, offset)
                  ELSE [raised |-> "none", tup |-> cell.val]
    IN  IF parsed.raised # "none" THEN [raised |-> "Error", t_cell |-> <<>>]
        ELSE IF ~np_index_ok(g, parsed.tup)
             THEN [raised |-> "Error", t_cell |-> <<>>]
             ELSE [raised |-> "none", t_cell |-> parsed.tup]

\* move_played that tests v > MOVE_BASE without abs()
move_played_no_abs(g, t_cell) ==
    LET sel == np_selected(g, t_cell)
    IN  IF Cardinality(sel) # 1 THEN [raised |-> "ValueError", played |-> FALSE]
        ELSE [raised |-> "none",
              played |-> \E c \in sel : g.board[c] > MOVE_BASE]

\* TicTacToe.move, lines 245-247: abs(v) > MOVE_BASE, v a scalar or, for an
\* index tuple shorter than d, a sub-array (whose truth value is an error
\* unless it has one element)
move_played(g, t_cell) ==
    LET sel == np_selected(g, t_cell)
    IN  IF Cardinality(sel) # 1 THEN [raised |-> "ValueError", played |-> FALSE]
        ELSE [raised |-> "none",
              played |-> \E c \in sel : Abs(g.board[c]) > MOVE_BASE]

\* move without the game-over guard
move_when_over(g, cell, offset) ==
    LET r == move_resolve(g, cell, offset)
    IN  IF r.raised # "none" THEN Raise(g, r.raised)
        ELSE LET v == move_played(g, r.t_cell)
             IN  IF v.raised # "none" THEN Raise(g, v.raised)
                 ELSE IF v.played THEN Raise(g, "MoveError")
                 ELSE Return(move_outcome(move_apply(g, r.t_cell)))

\* TicTacToe.move
move(g, cell, offset) ==
    IF g.state # IN_PROGRESS THEN Raise(g, "GameOverError")
    ELSE LET r == move_resolve(g, cell, offset)
         IN  IF r.raised # "none" THEN Raise(g, r.raised)
             ELSE LET v == move_played(g, r.t_cell)
                  IN  IF v.raised # "none" THEN Raise(g, v.raised)
                      ELSE IF v.played THEN Raise(g, "MoveError")
                      ELSE Return(move_outcome(move_apply(g, r.t_cell)))

\* undo that leaves the game state as it was
undo_keeps_state(g, replace) ==
    IF Len(g.moves) = 0 THEN g
    ELSE LET turn == g.active_moves = 0
             ap   == IF turn THEN 1 - g.active_player ELSE g.active_player
         IN  [g EXCEPT !.active_moves = IF turn THEN g.moves_per_turn - 1
                                        ELSE g.active_moves - 1,
                       !.active_player = ap,
                       !.moves_played[ap + 1] = @ - 1,
                       !.board = np_setitem(g, g.moves[Len(g.moves)].Cell, replace),
                       !.moves = SubSeq(g.moves, 1, Len(g.moves) - 1)]

\* undo that does not hand the turn back when it crosses a turn boundary
undo_keeps_player(g, replace) ==
    IF Len(g.moves) = 0 THEN g
    ELSE LET turn == g.active_moves = 0
             ap   == g.active_player
         IN  [g EXCEPT !.state = IN_PROGRESS,
                       !.active_moves = IF turn THEN g.moves_per_turn - 1
                                        ELSE g.active_moves - 1,
                       !.active_player = ap,
                       !.moves_played[ap + 1] = @ - 1,
                       !.board = np_setitem(g, g.moves[Len(g.moves)].Cell, replace),
                       !.moves = SubSeq(g.moves, 1, Len(g.moves) - 1)]

\* TicTacToe.undo
undo(g, replace) ==
    IF Len(g.moves) = 0 THEN g
    ELSE LET turn == g.active_moves = 0
             ap   == IF turn THEN 1 - g.active_player ELSE g.active_player
         IN  [g EXCEPT !.state = IN_PROGRESS,
                       !.active_moves = IF turn THEN g.moves_per_turn - 1
                                        ELSE g.active_moves - 1,
                       !.active_player = ap,
                       !.moves_played[ap + 1] = @ - 1,
                       !.board = np_setitem(g, g.moves[Len(g.moves)].Cell, replace),
                       !.moves = SubSeq(g.moves, 1, Len(g.moves) - 1)]

\* ------------------------------------------- Strategy (src/HyperOXO/strategy.py)
\* xs[start:stop] of a list: a negative index counts from the end, and an
\* index past either end is moved to that end
slice(xs, start, stop) ==
    LET clamp(i) == IF i < 0 THEN (IF Len(xs) + i < 0 THEN 0 ELSE Len(xs) + i)
                    ELSE (IF i > Len(xs) THEN Len(xs) ELSE i)
    IN  SubSeq(xs, clamp(start) + 1, clamp(stop))

\* Strategy.move that takes the last moves_per_turn moves in every case
Strategy_move_last_moves(g) ==
    LET ms == slice(g.moves, -g.moves_per_turn, Len(g.moves))
    IN  [opponent_moves |-> [k \in 1..Len(ms) |-> ms[k].Cell],
         move_in_turn |-> g.active_moves + 1]

\* Strategy.move: the attributes opponent_moves and move_in_turn it sets
Strategy_move(g) ==
    LET ms == IF g.active_moves = 0
              THEN slice(g.moves, -g.moves_per_turn, Len(g.moves))
              ELSE slice(g.moves, -(g.moves_per_turn + g.active_moves),
                         -g.active_moves)
    IN  [opponent_moves |-> [k \in 1..Len(ms) |-> ms[k].Cell],
         move_in_turn |-> g.active_moves + 1]

\* ------------------------------------- the engine of src/TicTacToe.py
P1_WIN == "P1_WIN"
P2_WIN == "P2_WIN"

\* self.lines = struct[1]: all lines of h(d, n), read through the board
legacy_lines(g) == get_lines_np([c \in Idx(g.d, g.n) |-> c], g.d, g.n)

\* get_lines_state: self.lines_state, the counts (marks of player 0, marks of
\* player 1) of the lines up to the first line that one player fills
legacy_lines_state(g) ==
    LET lines == legacy_lines(g)
        idx == get_lines_state(g, lines)
        last == IF idx = -1 THEN Len(lines) ELSE idx + 1
    IN  [c \in 1..last |->
            <<Cardinality({j \in 1..Len(lines[c]) : g.board[lines[c][j]] > MOVE_BASE}),
              Cardinality({j \in 1..Len(lines[c]) : g.board[lines[c][j]] < -MOVE_BASE})>>]

\* get_lines_state: self.win_line is set to the first filled line, if any
legacy_win_line(g) ==
    LET lines == legacy_lines(g)
        idx == get_lines_state(g, lines)
    IN  IF idx = -1 THEN g ELSE [g EXCEPT !.win_line = lines[idx + 1]]

\* TicTacToe.is_tie of src/TicTacToe.py
legacy_is_tie(g) ==
    IF g.state = TIE THEN TRUE
    ELSE Len(g.moves) = Pow(g.n, g.d)

\* TicTacToe.move of src/TicTacToe.py for a cell given as a tuple of the
\* board: a winning move returns before the turn is counted
legacy_move(g, t_cell) ==
    IF g.state # IN_PROGRESS THEN Raise(g, "GameOverError")
    ELSE IF Abs(g.board[t_cell]) > MOVE_BASE THEN Raise(g, "MoveError")
    ELSE LET p     == g.active_player
             count == g.moves_played[p + 1] + 1
             sgn   == IF p = 1 THEN -1 ELSE 1
             g1    == [g EXCEPT !.moves_played[p + 1] = count,
                                !.board = np_setitem(g, t_cell, sgn * (count + MOVE_BASE)),
                                !.moves = Append(g.moves, [Player |-> p, Cell |-> t_cell])]
             idx   == get_lines_state(g1, legacy_lines(g1))
             g2    == legacy_win_line(g1)
             am    == g.active_moves + 1
             g3    == [g2 EXCEPT
                          !.active_moves = IF am = g.moves_per_turn THEN 0 ELSE am,
                          !.active_player = IF am = g.moves_per_turn THEN 1 - p ELSE p]
         IN  IF idx > -1
             THEN Return([g2 EXCEPT !.state = IF p = 1 THEN P2_WIN ELSE P1_WIN])
             ELSE IF legacy_is_tie(g3) THEN Return([g3 EXCEPT !.state = TIE])
             ELSE Return(g3)

\* TicTacToe.undo of src/TicTacToe.py
legacy_undo(g, replace) ==
    IF Len(g.moves) = 0 THEN g
    ELSE LET turn == g.active_moves = 0
             ap   == IF turn THEN 1 - g.active_player ELSE g.active_player
         IN  legacy_win_line(
                 [g EXCEPT !.state = IN_PROGRESS,
                           !.active_moves = IF turn THEN g.moves_per_turn - 1
                                            ELSE g.active_moves - 1,
                           !.active_player = ap,
                           !.moves_played[ap + 1] = @ - 1,
                           !.board = np_setitem(g, g.moves[Len(g.moves)].Cell, replace),
                           !.moves = SubSeq(g.moves, 1, Len(g.moves) - 1)])

\* ---------------------------------------------------------------- state
VARIABLES d, n, moves_per_turn, board, scopes, state, win_line,
          active_player, active_moves, moves, moves_played,
          op, raised, cube, parse

gamevars == <<d, n, moves_per_turn, board, scopes, state, win_line,
              active_player, active_moves, moves, moves_played>>
vars == <<d, n, moves_per_turn, board, scopes, state, win_line,
          active_player, active_moves, moves, moves_played, op, raised,
          cube, parse>>

\* the engine object as one record
self == [d |-> d, n |-> n, moves_per_turn |-> moves_per_turn,
         board |-> board, scopes |-> scopes, state |-> state,
         win_line |-> win_line, active_player |-> active_player,
         active_moves |-> active_moves, moves |-> moves,
         moves_played |-> moves_played]

self_next == [d |-> d', n |-> n', moves_per_turn |-> moves_per_turn',
         board |-> board', scopes |-> scopes', state |-> state',
         win_line |-> win_line', active_player |-> active_player',
         active_moves |-> active_moves', moves |-> moves',
         moves_played |-> moves_played']

Becomes(g) ==
    /\ d' = g.d /\ n' = g.n /\ moves_per_turn' = g.moves_per_turn
    /\ board' = g.board /\ scopes' = g.scopes /\ state' = g.state
    /\ win_line' = g.win_line /\ active_player' = g.active_player
    /\ active_moves' = g.active_moves /\ moves' = g.moves
    /\ moves_played' = g.moves_played

\* no structure is being built while a game is played
NoCube == [pc |-> "none"]
\* ... and no move string is being parsed outside a move
NoParse == [pc |-> "none"]

\* ------------------------------------------------------- call arguments
Cells == DOMAIN board

\* tuple arguments: every cell, and index tuples outside [0, n)^d
TupleArgs ==
    Cells \cup { [i \in 1..d |-> -1],
                 [i \in 1..d |-> IF i = 1 THEN -n - 1 ELSE 0],
                 [i \in 1..d |-> IF i = d THEN n ELSE 0],
                 [i \in 1..(d - 1) |-> 0],
                 [i \in 1..(d + 1) |-> 0] }

\* a tuple of small numbers written as one digit per coordinate, and with
\* the coordinates separated by commas
fmt_digits(t) == [i \in 1..Len(t) |-> DigitChars[t[i] + 1]]
fmt_commas(t) ==
    [i \in 1..(2 * Len(t) - 1) |->
        IF i % 2 = 1 THEN DigitChars[t[(i + 1) \div 2] + 1] ELSE ","]

\* string arguments: the digits 0..n in every position, in both notations,
\* and strings with too few or too many coordinates
StrArgs ==
    LET written == [1..d -> 0..n]
                   \cup {[i \in 1..(d - 1) |-> 1], [i \in 1..(d + 1) |-> 1]}
    IN  {fmt_digits(t) : t \in written} \cup {fmt_commas(t) : t \in written}
        \cup {<<"1", "2", ",">> \o [i \in 1..(d - 1) |-> "1"]}

Offsets == {0, 1}

\* ----------------------------------------------------------- transitions
Init ==
    \E dd \in 1..MaxD, nn \in 1..MaxN, mpt \in 1..MaxMpt :
        /\ Pow(nn, dd) <= MaxCells
        /\ LET g == new_game(dd, nn, mpt)
           IN  /\ d = g.d /\ n = g.n /\ moves_per_turn = g.moves_per_turn
               /\ board = g.board /\ scopes = g.scopes /\ state = g.state
               /\ win_line = g.win_line /\ active_player = g.active_player
               /\ active_moves = g.active_moves /\ moves = g.moves
               /\ moves_played = g.moves_played
        /\ op = "new"
        /\ raised = "none"
        /\ cube = NoCube /\ parse = NoParse

Call(r) ==
    /\ Becomes(r.game)
    /\ op' = "move"
    /\ raised' = r.raised
    /\ UNCHANGED <<cube, parse>>

MoveTuple == \E t \in TupleArgs : Call(move(self, [str |-> FALSE, val |-> t], 1))

MoveStr ==
    \E s \in StrArgs, offset \in Offsets :
        Call(move(self, [str |-> TRUE, val |-> s], offset))

Undo ==
    /\ Becomes(undo(self, 0))
    /\ op' = "undo"
    /\ raised' = "none"
    /\ UNCHANGED <<cube, parse>>

Reset ==
    /\ Becomes(reset(self))
    /\ op' = "reset"
    /\ raised' = "none"
    /\ UNCHANGED <<cube, parse>>

Next == MoveTuple \/ MoveStr \/ Undo \/ Reset

Spec == Init /\ [][Next]_vars

\* ------------------------------------------------------------ legal play
\* TicTacToe(d, n, moves_per_turn) for arguments that include d = 0, n = 0
\* and the board of MaxBigN^2 cells, then moves on unplayed cells of the board
ConstructArgs ==
    ((0..MaxD) \X (0..MaxN)) \cup {<<2, MaxBigN>>}

PlayInit ==
    \E a \in ConstructArgs, mpt \in 1..MaxMpt :
        LET r == construct(a[1], a[2], mpt)
            g == r.game
        IN  /\ d = g.d /\ n = g.n /\ moves_per_turn = g.moves_per_turn
            /\ board = g.board /\ scopes = g.scopes /\ state = g.state
            /\ win_line = g.win_line /\ active_player = g.active_player
            /\ active_moves = g.active_moves /\ moves = g.moves
            /\ moves_played = g.moves_played
            /\ op = "new"
            /\ raised = r.raised
            /\ cube = NoCube /\ parse = NoParse

PlayMove ==
    /\ ~(op = "new" /\ raised # "none")
    /\ state = IN_PROGRESS
    /\ Cardinality(Cells) <= MaxPlayCells
    /\ Len(moves) < MaxPlayMoves
    /\ \E c \in Cells :
          /\ board[c] = 0
          /\ Call(move(self, [str |-> FALSE, val |-> c], 1))

PlayNext == PlayMove

PlaySpec == PlayInit /\ [][PlayNext]_vars

\* ------------------------------------------------- undo with a replace value
\* undo(replace) for replace values on both sides of MOVE_BASE, between
\* moves on cells of the board
ReplaceValues == {0, -1, MOVE_BASE, MOVE_BASE + 1, -(MOVE_BASE + 1)}

ReplaceMove ==
    \E c \in Cells :
        Call(move(self, [str |-> FALSE, val |-> c], 1))

UndoReplace ==
    \E replace \in ReplaceValues :
        /\ Becomes(undo(self, replace))
        /\ op' = "undo"
        /\ raised' = "none"
        /\ UNCHANGED <<cube, parse>>

ReplaceNext == ReplaceMove \/ UndoReplace

ReplaceSpec == Init /\ [][ReplaceNext]_vars

\* ------------------------------------------- play on src/TicTacToe.py
\* TicTacToe(d, n, moves_per_turn) of src/TicTacToe.py, then moves on cells
\* of the board, each undone again by one undo() per move, and reset();
\* cube carries the attribute lines_state of this engine
LegacyInit ==
    /\ \E dd \in 1..MaxD, nn \in 1..MaxN, mpt \in 1..MaxMpt :
          /\ Pow(nn, dd) <= MaxCells
          /\ LET g == new_game(dd, nn, mpt)
             IN  /\ d = g.d /\ n = g.n /\ moves_per_turn = g.moves_per_turn
                 /\ board = g.board /\ scopes = g.scopes /\ state = g.state
                 /\ win_line = g.win_line /\ active_player = g.active_player
                 /\ active_moves = g.active_moves /\ moves = g.moves
                 /\ moves_played = g.moves_played
    /\ op = "new"
    /\ raised = "none"
    /\ cube = [pc |-> "legacy", lines_state |-> <<>>]
    /\ parse = NoParse

LegacyMove ==
    /\ op # "undo"
    /\ \E c \in Cells :
          LET r == legacy_move(self, c)
          IN  /\ Becomes(r.game)
              /\ op' = "move"
              /\ raised' = r.raised
              /\ cube' = IF r.raised = "none"
                         THEN [cube EXCEPT !.lines_state = legacy_lines_state(r.game)]
                         ELSE cube
    /\ UNCHANGED parse

LegacyUndo ==
    /\ LET g == legacy_undo(self, 0)
       IN  /\ Becomes(g)
           /\ cube' = IF moves = <<>> THEN cube
                      ELSE [cube EXCEPT !.lines_state = legacy_lines_state(g)]
    /\ op' = "undo"
    /\ raised' = "none"
    /\ UNCHANGED parse

LegacyReset ==
    /\ Becomes(reset(self))
    /\ cube' = [cube EXCEPT !.lines_state = <<>>]
    /\ op' = "reset"
    /\ raised' = "none"
    /\ UNCHANGED parse

LegacyNext == LegacyMove \/ LegacyUndo \/ LegacyReset

LegacySpec == LegacyInit /\ [][LegacyNext]_vars

\* --------------------------------------------------- a strategy at the board
\* Strategy.move called in IN_PROGRESS states of a game that is played with
\* tuple arguments, undo and reset; cube carries the attributes it sets
StrategyInit ==
    /\ \E dd \in 1..MaxD, nn \in 1..MaxN, mpt \in 1..MaxMpt :
          /\ Pow(nn, dd) <= MaxCells
          /\ LET g == new_game(dd, nn, mpt)
             IN  /\ d = g.d /\ n = g.n /\ moves_per_turn = g.moves_per_turn
                 /\ board = g.board /\ scopes = g.scopes /\ state = g.state
                 /\ win_line = g.win_line /\ active_player = g.active_player
                 /\ active_moves = g.active_moves /\ moves = g.moves
                 /\ moves_played = g.moves_played
    /\ op = "new"
    /\ raised = "none"
    /\ cube = [pc |-> "strategy", opponent_moves |-> <<>>, move_in_turn |-> 0]
    /\ parse = NoParse

StrategyMove ==
    /\ state = IN_PROGRESS
    /\ LET r == Strategy_move(self)
       IN  cube' = [cube EXCEPT !.opponent_moves = r.opponent_moves,
                                !.move_in_turn = r.move_in_turn]
    /\ op' = "strategy"
    /\ raised' = "none"
    /\ UNCHANGED <<gamevars, parse>>

StrategyNext == StrategyMove \/ MoveTuple \/ Undo \/ Reset

StrategySpec == StrategyInit /\ [][StrategyNext]_vars

\* ------------------------------------------------ parsing a move string
\* str(v) of an integer
RECURSIVE str_nat(_)
str_nat(v) ==
    IF v < 10 THEN <<DigitChars[v + 1]>>
    ELSE str_nat(v \div 10) \o <<DigitChars[(v % 10) + 1]>>
str_int(v) == IF v < 0 THEN <<"-">> \o str_nat(-v) ELSE str_nat(v)

\* the components c_i + offset of a cell written in decimal and joined by ','
RECURSIVE join_commas(_)
join_commas(parts) ==
    IF Len(parts) = 1 THEN Head(parts)
    ELSE Head(parts) \o <<",">> \o join_commas(Tail(parts))
FormatCell(c, offset) == join_commas([i \in 1..Len(c) |-> str_int(c[i] + offset)])

\* the strings of at most len characters over the alphabet
RECURSIVE Strings(_, _)
Strings(alphabet, len) ==
    IF len = 0 THEN {<<>>}
    ELSE LET shorter == Strings(alphabet, len - 1)
         IN  shorter \cup {Append(s, ch) : s \in shorter, ch \in alphabet}

ParseAlphabet == {"0", "1", "2", "9", ",", " "}
ParseOffsets == {-1, 0, 1}
\* the sides n: small boards, the largest board whose coordinates are single
\* digits, and a board beyond it
ParseN == (1..MaxN) \cup {9, MaxBigN}

\* str_to_tuple(d, n, cell, offset), called on every short string and on
\* every cell of the board as written by FormatCell
ParseInit ==
    /\ \E dd \in 1..MaxD, nn \in ParseN, offset \in ParseOffsets :
          \E cell \in Strings(ParseAlphabet, MaxStrLen)
                       \cup {FormatCell(c, offset) : c \in Idx(dd, nn)} :
              parse = [pc |-> "call", d |-> dd, n |-> nn, cell |-> cell,
                       offset |-> offset, raised |-> "none", tup |-> <<>>]
    /\ LET g == new_game(1, 1, 1)
       IN  /\ d = g.d /\ n = g.n /\ moves_per_turn = g.moves_per_turn
           /\ board = g.board /\ scopes = g.scopes /\ state = g.state
           /\ win_line = g.win_line /\ active_player = g.active_player
           /\ active_moves = g.active_moves /\ moves = g.moves
           /\ moves_played = g.moves_played
    /\ op = "new"
    /\ raised = "none"
    /\ cube = NoCube

StrToTuple ==
    /\ parse.pc = "call"
    /\ LET r == str_to_tuple(parse.d, parse.n, parse.cell, parse.offset)
       IN  parse' = [parse EXCEPT !.pc = "returned",
                                  !.raised = r.raised,
                                  !.tup = r.tup]
    /\ UNCHANGED <<gamevars, op, raised, cube>>

ParseNext == StrToTuple

ParseSpec == ParseInit /\ [][ParseNext]_vars

\* ------------------------------------------- building the structure h(d, n)
\* structure_enum_np(d, n) followed by structure_enum_coord(d, n), by
\* get_scopes_coord(lines, d) and by scopes_size_cell of its result; the loops
\* of the two enumerated scope builders advance one line, or one cell, per step
StructureInit ==
    /\ \E dd \in 1..MaxCubeD, nn \in 1..MaxCubeN :
          /\ Pow(nn, dd) <= MaxCubeCells
          /\ cube = [pc |-> "get_lines_enum_np", d |-> dd, n |-> nn, idx |-> 0,
                     grouped_np |-> <<>>, lines_np |-> <<>>, scopes_np |-> <<>>,
                     diagonals_coord |-> <<>>, grouped_coord |-> <<>>,
                     lines_coord |-> <<>>, scopes_coord |-> <<>>,
                     scopes_lines |-> <<>>, sizes |-> <<>>,
                     cell |-> <<>>, scope_cell |-> <<>>, check |-> FALSE,
                     scopes_struct_np |-> <<>>, counters |-> <<>>]
    /\ parse = NoParse
    /\ LET g == new_game(1, 1, 1)
       IN  /\ d = g.d /\ n = g.n /\ moves_per_turn = g.moves_per_turn
           /\ board = g.board /\ scopes = g.scopes /\ state = g.state
           /\ win_line = g.win_line /\ active_player = g.active_player
           /\ active_moves = g.active_moves /\ moves = g.moves
           /\ moves_played = g.moves_played
    /\ op = "new"
    /\ raised = "none"

GetLinesEnumNp ==
    /\ cube.pc = "get_lines_enum_np"
    /\ LET arr == arange_reshape(cube.d, cube.n)
           grouped == get_lines_grouped_np(arr, cube.d, cube.n)
       IN  cube' = [cube EXCEPT !.grouped_np = grouped,
                                !.lines_np = get_lines_enum_np(arr, cube.d, cube.n),
                                !.idx = 0,
                                !.pc = "get_scopes_enum_np"]
    /\ UNCHANGED <<gamevars, op, raised, parse>>

GetScopesEnumNp ==
    /\ cube.pc = "get_scopes_enum_np"
    /\ LET last == cube.idx + 1 >= Len(cube.lines_np)
       IN  cube' = [cube EXCEPT
               !.scopes_np = get_scopes_enum_np_line(@, cube.lines_np[cube.idx + 1],
                                                     cube.idx, cube.d, cube.n, 0),
               !.idx = IF last THEN 0 ELSE @ + 1,
               !.pc = IF last THEN "get_lines_enum_coord" ELSE @]
    /\ UNCHANGED <<gamevars, op, raised, parse>>

GetLinesEnumCoord ==
    /\ cube.pc = "get_lines_enum_coord"
    /\ cube' = [cube EXCEPT
           !.diagonals_coord = [i \in 1..cube.d |-> get_diagonals_coord(i, cube.n)],
           !.grouped_coord = get_lines_grouped_coord(cube.d, cube.n),
           !.lines_coord = get_lines_enum_coord(cube.d, cube.n),
           !.idx = 0,
           !.pc = "get_scopes_enum_coord"]
    /\ UNCHANGED <<gamevars, op, raised, parse>>

GetScopesEnumCoord ==
    /\ cube.pc = "get_scopes_enum_coord"
    /\ LET cells == product(cube.n, cube.d)
           last == cube.idx + 1 >= Len(cells)
       IN  cube' = [cube EXCEPT
               !.scopes_coord = get_scopes_enum_coord_cell(@, cube.lines_coord,
                                                           cells[cube.idx + 1]),
               !.idx = IF last THEN 0 ELSE @ + 1,
               !.pc = IF last THEN "scopes_size_cell" ELSE @]
    /\ UNCHANGED <<gamevars, op, raised, parse>>

ScopesSizeCell ==
    /\ cube.pc = "scopes_size_cell"
    /\ LET scopes_lines == get_scopes_coord(cube.lines_coord, cube.d)
       IN  cube' = [cube EXCEPT !.scopes_lines = scopes_lines,
                                !.sizes = scopes_size_cell(scopes_lines),
                                !.idx = 0,
                                !.pc = "get_scope_cell_coord"]
    /\ UNCHANGED <<gamevars, op, raised, parse>>

\* list(get_scope_cell_coord(d, n, cell)), one cell of h(d, n) per step
GetScopeCellCoord ==
    /\ cube.pc = "get_scope_cell_coord"
    /\ LET cells == product(cube.n, cube.d)
           last == cube.idx + 1 >= Len(cells)
           cell == cells[cube.idx + 1]
       IN  cube' = [cube EXCEPT
               !.cell = cell,
               !.scope_cell = get_scope_cell_coord(cube.d, cube.n, cell),
               !.idx = IF last THEN 0 ELSE @ + 1,
               !.pc = IF last THEN "lines_np_coord_check" ELSE @]
    /\ UNCHANGED <<gamevars, op, raised, parse>>

\* _lines_np_coord_check(d, n): get_lines_np on np.arange(n ** d) reshaped,
\* get_lines_coord(d, n) and the comparison of the two
LinesNpCoordCheck ==
    /\ cube.pc = "lines_np_coord_check"
    /\ LET arr == arange_reshape(cube.d, cube.n)
           lines_np == get_lines_np(arr, cube.d, cube.n)
           lines_coord == get_lines_coord(cube.d, cube.n)
       IN  cube' = [cube EXCEPT
               !.check = _lines_np_coord_check(lines_np, lines_coord,
                                               cube.d, cube.n),
               !.pc = "scopes_size"]
    /\ UNCHANGED <<gamevars, op, raised, parse>>

\* scopes_size of the scopes of structure_np(d, n), structure_enum_np(d, n),
\* structure_coord(d, n) and structure_enum_coord(d, n), in this order
ScopesSize ==
    /\ cube.pc = "scopes_size"
    /\ LET scopes_struct_np == structure_np(cube.d, cube.n).scopes
       IN  cube' = [cube EXCEPT
               !.scopes_struct_np = scopes_struct_np,
               !.counters = <<scopes_size(scopes_struct_np),
                              scopes_size(cube.scopes_np),
                              scopes_size(cube.scopes_lines),
                              scopes_size(cube.scopes_coord)>>,
               !.pc = "done"]
    /\ UNCHANGED <<gamevars, op, raised, parse>>

StructureNext ==
    \/ GetLinesEnumNp
    \/ GetScopesEnumNp
    \/ GetLinesEnumCoord
    \/ GetScopesEnumCoord
    \/ ScopesSizeCell
    \/ GetScopeCellCoord
    \/ LinesNpCoordCheck
    \/ ScopesSize

StructureSpec == StructureInit /\ [][StructureNext]_vars

\* ------------------------------------------------- vocabulary of the claims
Terminal == {WIN_P1, WIN_P2, TIE}
MoveDone == op = "move" /\ raised = "none"
LastMove == moves[Len(moves)]
InRange(t) == t \in Idx(d, n)
AllInRange == \A i \in 1..Len(moves) : InRange(moves[i].Cell)
WinOf(p) == IF p = 0 THEN WIN_P1 ELSE WIN_P2
Played(c) == Abs(board[c]) > MOVE_BASE
AllPlayed == \A c \in Cells : Played(c)
\* every cell of the line carries a mark of player p
Owned(line, p) ==
    \A j \in 1..Len(line) :
        IF p = 0 THEN board[line[j]] > MOVE_BASE ELSE board[line[j]] < -MOVE_BASE
\* the lines of the hypercube through cell c
LinesThrough(c) == {scopes[c][k] : k \in 1..Len(scopes[c])}
AllLines == UNION {LinesThrough(c) : c \in Cells}
SomeLineOwned == \E line \in AllLines, p \in {0, 1} : Owned(line, p)
Fresh ==
    /\ \A c \in Cells : board[c] = 0
    /\ moves = <<>> /\ moves_played = <<0, 0>>
    /\ active_player = 0 /\ active_moves = 0 /\ state = IN_PROGRESS

\* ------------------------------------------------------------------ claims
\* C1: after in-range moves, a successful move that completes a line of the
\* mover leaves the state at the win of the mover (WIN_P1 for player 0,
\* WIN_P2 for player 1).
C1_WinnerIsMover ==
    (MoveDone /\ AllInRange
        /\ \E line \in LinesThrough(LastMove.Cell) : Owned(line, LastMove.Player))
    => state = WinOf(LastMove.Player)

\* C2: after in-range moves, a successful move after which a line in the
\* scope of the cell just played is fully occupied by the mover leaves a win
\* state, however few moves have been recorded.
C2_CompletedLineIsWin ==
    (MoveDone /\ AllInRange
        /\ \E line \in LinesThrough(LastMove.Cell) : Owned(line, LastMove.Player))
    => state \in {WIN_P1, WIN_P2}

\* C4: after in-range moves, undo and reset the state is TIE exactly when
\* every cell is played and no line is fully occupied by one player.
C4_TieIffFullAndNoLine ==
    AllInRange => (state = TIE <=> (AllPlayed /\ ~SomeLineOwned))

\* C7: every cell recorded in moves is a d-tuple with all components in
\* [0, n): a cell argument that does not resolve to one is refused.
C7_RecordedCellsInRange == AllInRange

\* undo() once per recorded move
RECURSIVE undo_all(_)
undo_all(g) == IF Len(g.moves) = 0 THEN g ELSE undo_all(undo(g, 0))

\* C3: undo after a successful move from an IN_PROGRESS state restores the
\* board, moves, moves_played, active_player, active_moves and IN_PROGRESS,
\* also when the move ended the game; and undoing every recorded move leads
\* to the all-zero board with the counters of a fresh game.
C3_MoveUndoRoundTrip ==
    [][ /\ (op' = "move" /\ raised' = "none") =>
            LET u == undo(self_next, 0)
            IN  /\ state = IN_PROGRESS
                /\ u.board = board /\ u.moves = moves
                /\ u.moves_played = moves_played
                /\ u.active_player = active_player
                /\ u.active_moves = active_moves
                /\ u.state = IN_PROGRESS
        /\ (op' = "move" /\ raised' = "none") =>
           LET z == undo_all(self_next)
           IN  /\ \A c \in DOMAIN z.board : z.board[c] = 0
               /\ z.moves = <<>> /\ z.moves_played = <<0, 0>>
               /\ z.active_player = 0 /\ z.active_moves = 0
               /\ z.state = IN_PROGRESS
        /\ (op' = "undo" /\ moves' = <<>>) => Fresh'
      ]_vars

\* an undo has emptied the move list of a game that had been won
C3_Witness == op = "undo" /\ moves = <<>> /\ win_line # <<>>

\* C5: a move in a terminal state raises GameOverError whatever the cell
\* argument and changes nothing; a terminal state is left only by undo or
\* reset.
C5_GameOverRefusesMove ==
    [][ /\ (state \in Terminal /\ op' = "move") =>
            (raised' = "GameOverError" /\ UNCHANGED gamevars)
        /\ (state \in Terminal /\ state' # state) => op' \in {"undo", "reset"}
      ]_vars

C5_Witness == raised = "GameOverError" /\ state \in Terminal

\* C6: in an IN_PROGRESS game a move on a played cell, given as a tuple or
\* as a string, raises MoveError and changes nothing.
C6_DuplicateMoveRefused ==
    /\ raised = "MoveError" => state = IN_PROGRESS
    /\ state = IN_PROGRESS =>
        \A c \in Cells : Played(c) =>
            /\ move(self, [str |-> FALSE, val |-> c], 1) = Raise(self, "MoveError")
            /\ \A s \in StrArgs, offset \in Offsets :
                  str_to_tuple(d, n, s, offset) = [raised |-> "none", tup |-> c]
                  => move(self, [str |-> TRUE, val |-> s], offset)
                        = Raise(self, "MoveError")

\* a duplicate move was refused on a board that carries marks of both players
C6_Witness ==
    /\ raised = "MoveError"
    /\ \E c \in Cells : board[c] > MOVE_BASE
    /\ \E c \in Cells : board[c] < -MOVE_BASE

\* C8: undo with a recorded move leaves IN_PROGRESS, also from a win or a
\* tie, and every unplayed cell is then accepted by move; undo with no
\* recorded move changes nothing.
C8_UndoReopensGame ==
    [][ op' = "undo" =>
            IF Len(moves) > 0
            THEN /\ state' = IN_PROGRESS
                 /\ \A c \in Cells : ~Played(c)' =>
                        move(self_next, [str |-> FALSE, val |-> c], 1).raised = "none"
            ELSE UNCHANGED gamevars
      ]_vars

\* an undo has reopened a game that had been won
C8_Witness == op = "undo" /\ state = IN_PROGRESS /\ moves # <<>> /\ win_line # <<>>

\* C9: reset leads to the state of a freshly constructed game and leaves d,
\* n, moves_per_turn and the scope map as they were, each cell's scope being
\* the one the constructor built.
C9_ResetIsFresh ==
    [][ op' = "reset" =>
            /\ Fresh' /\ win_line' = <<>>
            /\ UNCHANGED <<d, n, moves_per_turn, scopes>>
            /\ LET fresh == new_game(d, n, moves_per_turn)
               IN  /\ board' = fresh.board /\ moves' = fresh.moves
                   /\ moves_played' = fresh.moves_played
                   /\ state' = fresh.state /\ win_line' = fresh.win_line
                   /\ active_player' = fresh.active_player
                   /\ active_moves' = fresh.active_moves
                   /\ \A c \in DOMAIN fresh.scopes : scopes'[c] = fresh.scopes[c]
      ]_vars

\* a reset of a game in which a move outside the scope map had been played
C9_Witness == op = "reset" /\ DOMAIN scopes # Cells

\* C10: active_moves and active_player are functions of the number of
\* recorded moves, and the recorded players alternate in blocks of
\* moves_per_turn starting with player 0.
C10_TurnBookkeeping ==
    /\ active_moves = Len(moves) % moves_per_turn
    /\ active_player = (Len(moves) \div moves_per_turn) % 2
    /\ \A i \in 1..Len(moves) :
          moves[i].Player = ((i - 1) \div moves_per_turn) % 2

\* a move in the middle of a two-move turn has just ended the game
C10_Witness ==
    MoveDone /\ state \in Terminal /\ moves_per_turn = 2 /\ active_moves = 1

\* the recorded moves of player p, in play order
MovesOf(p) == SelectSeq(moves, LAMBDA m : m.Player = p)

\* C11: every board cell is 0 or +/-(k + MOVE_BASE) with k >= 1; the cells
\* with positive values are exactly the cells of player 0's recorded moves and
\* hold MOVE_BASE+1 .. MOVE_BASE+moves_played[0] in play order, and likewise
\* with negative values for player 1; the number of played cells equals
\* len(moves) = moves_played[0] + moves_played[1].
C11_BoardEncoding ==
    /\ \A c \in Cells : board[c] = 0 \/ Abs(board[c]) > MOVE_BASE
    /\ \A p \in {0, 1} :
          LET mp  == MovesOf(p)
              sgn == IF p = 1 THEN -1 ELSE 1
          IN  /\ Len(mp) = moves_played[p + 1]
              /\ {c \in Cells : sgn * board[c] > 0}
                     = {mp[k].Cell : k \in 1..Len(mp)}
              /\ \A k \in 1..Len(mp) :
                     /\ mp[k].Cell \in Cells
                     /\ board[mp[k].Cell] = sgn * (MOVE_BASE + k)
    /\ \A c1, c2 \in Cells : (board[c1] # 0 /\ board[c1] = board[c2]) => c1 = c2
    /\ Cardinality({c \in Cells : board[c] # 0}) = Len(moves)
    /\ Len(moves) = moves_played[1] + moves_played[2]


\* C24: with moves_per_turn = 1, in every state reached by moves on cells of
\* the board, undo with the default replace and reset, IN_PROGRESS implies
\* that no line of the board is fully occupied by one player: the win check
\* skipped while len(moves) < 2 * n - 1 hides no completed line.
C24_ThresholdHidesNoLine ==
    (moves_per_turn = 1 /\ AllInRange /\ state = IN_PROGRESS) => ~SomeLineOwned

\* the last move for which is_win skips the board, on a board that was won
\* before and reopened by undo
C24_Witness ==
    /\ MoveDone /\ moves_per_turn = 1 /\ AllInRange /\ state = IN_PROGRESS
    /\ d = 2 /\ n = 2 /\ Len(moves) = 2 * n - 2
    /\ win_line # <<>>


\* C25: at most n^d moves are recorded, and after the n^d-th successful move
\* the state is WIN_P1, WIN_P2 or TIE, never IN_PROGRESS, for every
\* moves_per_turn: play by successful moves alone ends within n^d moves.
C25_PlayTerminates ==
    /\ Len(moves) <= Pow(n, d)
    /\ Len(moves) = Pow(n, d) => state \in Terminal
    /\ state = IN_PROGRESS => Len(moves) < Pow(n, d)

\* the third move on the board of 1 x 3 cells has filled it without a win
C25_Witness ==
    /\ MoveDone /\ AllInRange /\ d = 1 /\ n = 3 /\ moves_per_turn = 1
    /\ Len(moves) = Pow(n, d) /\ state = TIE


\* C26: whenever the state is WIN_P1 or WIN_P2, win_line is one of the lines
\* in the scope of the cell of the last recorded move, and all n of its cells
\* are occupied by one and the same player.
C26_WinLineIsOwned ==
    state \in {WIN_P1, WIN_P2} =>
        /\ moves # <<>>
        /\ \E k \in 1..Len(scopes_get(self, LastMove.Cell)) :
              scopes_get(self, LastMove.Cell)[k] = win_line
        /\ Len(win_line) = n
        /\ \A j \in 1..Len(win_line) : win_line[j] \in Cells
        /\ Owned(win_line, 0) \/ Owned(win_line, 1)

\* player 1 has won on the 2 x 2 board while player 0 holds a line as well
C26_Witness ==
    /\ state \in {WIN_P1, WIN_P2} /\ d = 2 /\ n = 2
    /\ Owned(win_line, 1)
    /\ \E line \in AllLines : Owned(line, 0)


\* C27: after undo(replace) of a recorded move, for every integer replace,
\* the undone cell is unplayed again: a move on it by the player now to move
\* succeeds, and the cell counts for neither player in the test of a line.
C27_UndoneCellUnplayed ==
    [][ (op' = "undo" /\ moves # <<>>) =>
            LET c == LastMove.Cell
            IN  /\ move(self_next, [str |-> FALSE, val |-> c], 1).raised = "none"
                /\ ~(board'[c] > MOVE_BASE) /\ ~(board'[c] < -MOVE_BASE)
      ]_vars


\* C28: in the engine of src/TicTacToe.py, after a sequence of legal moves
\* from reset, the last of which may win the game, one undo per move leads
\* to the all-zero board with moves_played = [0, 0], active_player = 0,
\* active_moves = 0 and IN_PROGRESS, and moves_played is never negative.
C28_LegacyRoundTrip ==
    /\ moves_played[1] >= 0 /\ moves_played[2] >= 0
    /\ (op = "undo" /\ moves = <<>>) => Fresh


\* the number of moves recorded before the turn of the player now to move
BeforeTurn == Len(moves) - active_moves

\* C29: Strategy.move, called in an IN_PROGRESS state, sets opponent_moves to
\* the cells of the moves_per_turn recorded moves that precede the
\* active_moves moves of the current turn, in play order (the empty list when
\* the opponent has not moved), and move_in_turn to active_moves + 1; these
\* moves are the opponent's and none of their cells was played by the active
\* player.
C29_OpponentMoves ==
    op = "strategy" =>
        /\ cube.move_in_turn = active_moves + 1
        /\ cube.opponent_moves =
              IF BeforeTurn = 0 THEN <<>>
              ELSE [k \in 1..moves_per_turn |->
                       moves[BeforeTurn - moves_per_turn + k].Cell]
        /\ BeforeTurn # 0 =>
              /\ BeforeTurn >= moves_per_turn
              /\ \A k \in 1..moves_per_turn :
                    moves[BeforeTurn - moves_per_turn + k].Player = 1 - active_player
        /\ \A k \in 1..Len(cube.opponent_moves) : \A i \in 1..Len(moves) :
              moves[i].Cell = cube.opponent_moves[k] => moves[i].Player # active_player

\* the second player, one move into a turn of two, looks at the two moves of
\* the first player
C29_Witness ==
    /\ op = "strategy" /\ moves_per_turn = 2 /\ active_moves = 1
    /\ active_player = 1 /\ Len(moves) = 3
    /\ cube.opponent_moves = <<moves[1].Cell, moves[2].Cell>>
    /\ cube.move_in_turn = 2


\* ---------------------------------------- vocabulary of the structure claims
LinesNpDone == cube.pc \in {"get_scopes_enum_np", "get_lines_enum_coord",
                            "get_scopes_enum_coord", "scopes_size_cell", "done"}
LinesCoordDone == cube.pc \in {"get_scopes_enum_coord", "scopes_size_cell", "done"}
ScopesNpDone == cube.pc \in {"get_lines_enum_coord", "get_scopes_enum_coord",
                             "scopes_size_cell", "done"}
ScopesCoordDone == cube.pc \in {"scopes_size_cell", "done"}
\* the closed form: sum over m = 1..d of C(d, m) * n^(d - m) * 2^(m - 1)
RECURSIVE ClosedForm(_, _, _)
ClosedForm(dd, nn, m) ==
    IF m = 0 THEN 0
    ELSE ClosedForm(dd, nn, m - 1)
         + comb(dd, m) * Pow(nn, dd - m) * Pow(2, m - 1)

\* C12: the number of lines get_lines_np produces on the n^d cube, and that
\* structure_np(d, n) returns, equals num_lines(d, n) = sum over m = 1..d of
\* C(d,m) * n^(d-m) * 2^(m-1) (so twice the number is (n+2)^d - n^d), and the
\* number of lines of span m equals the m-th value of num_lines_grouped(d, n).
C12_LineCountNp ==
    LinesNpDone =>
        /\ Len(cube.lines_np) = num_lines(cube.d, cube.n)
        /\ num_lines(cube.d, cube.n) = ClosedForm(cube.d, cube.n, cube.d)
        /\ 2 * Len(cube.lines_np) = Pow(cube.n + 2, cube.d) - Pow(cube.n, cube.d)
        /\ Len(cube.grouped_np) = cube.d
        /\ \A m \in 1..cube.d :
              Len(cube.grouped_np[m]) = num_lines_grouped(cube.d, cube.n)[m]
        /\ (cube.pc = "get_scopes_enum_np" /\ cube.idx = 0) =>
              Len(structure_np(cube.d, cube.n).lines) = num_lines(cube.d, cube.n)

C12_Witness ==
    /\ LinesNpDone /\ cube.d = 3 /\ cube.n = 3
    /\ Len(cube.lines_np) = 49
    /\ Len(cube.grouped_np[2]) = 18


\* C13: get_diagonals_coord(i, n) yields exactly 2^(i-1) diagonals of n cells
\* each, for every i in 1..d, and get_lines_coord(d, n) yields num_lines(d, n)
\* lines (n = 1 included).
C13_LineCountCoord ==
    LinesCoordDone =>
        /\ \A i \in 1..cube.d :
              /\ Len(cube.diagonals_coord[i]) = Pow(2, i - 1)
              /\ \A k \in 1..Len(cube.diagonals_coord[i]) :
                    Len(cube.diagonals_coord[i][k]) = cube.n
        /\ Len(cube.lines_coord) = num_lines(cube.d, cube.n)
        /\ num_lines(cube.d, cube.n) = ClosedForm(cube.d, cube.n, cube.d)

\* a line as the unordered set of its cells
CellSet(line) == {line[j] : j \in 1..Len(line)}
NoDuplicates(lines) ==
    \A k1, k2 \in 1..Len(lines) :
        CellSet(lines[k1]) = CellSet(lines[k2]) => k1 = k2

Step(line, j, a) == line[j + 1][a] - line[j][a]

\* C15: every line of get_lines_coord(d, n) in the group of span m has exactly
\* n pairwise distinct d-tuples with all components in [0, n), and there is a
\* set of exactly m dimensions in each of which every consecutive pair of
\* cells differs by +1, or every pair by -1, while the cells agree in the
\* other d - m dimensions.
C15_LineWellFormed ==
    LinesCoordDone =>
        /\ Len(cube.grouped_coord) = cube.d
        /\ cube.lines_coord = Flatten(cube.grouped_coord)
        /\ \A m \in 1..cube.d : \A k \in 1..Len(cube.grouped_coord[m]) :
              LET line == cube.grouped_coord[m][k]
              IN  /\ Len(line) = cube.n
                  /\ \A j \in 1..cube.n : line[j] \in Idx(cube.d, cube.n)
                  /\ \A j1, j2 \in 1..cube.n : line[j1] = line[j2] => j1 = j2
                  /\ \E S \in SUBSET (1..cube.d) :
                        /\ Cardinality(S) = m
                        /\ \A a \in S : \E sgn \in {-1, 1} :
                              \A j \in 1..(cube.n - 1) : Step(line, j, a) = sgn
                        /\ \A a \in (1..cube.d) \ S :
                              \A j \in 1..(cube.n - 1) : Step(line, j, a) = 0

\* a line of span 3 that rises in one dimension and falls in another
C15_Witness ==
    /\ LinesCoordDone /\ cube.d = 3 /\ cube.n >= 3
    /\ \E k \in 1..Len(cube.grouped_coord[3]) :
          LET line == cube.grouped_coord[3][k]
          IN  \E a, b \in 1..3 : Step(line, 1, a) = 1 /\ Step(line, 2, b) = -1

\* the scope of a cell in a defaultdict(list): [] for a cell without a key
ScopeOf(sc, c) == IF c \in DOMAIN sc THEN sc[c] ELSE <<>>
Occurrences(seq, v) == Cardinality({j \in 1..Len(seq) : seq[j] = v})
RECURSIVE SumOver(_, _)
SumOver(S, f) ==
    IF S = {} THEN 0
    ELSE LET c == CHOOSE x \in S : TRUE IN f[c] + SumOver(S \ {c}, f)
\* scope completeness of one scope map against the cells of the keyed lines
Complete(sc, cells_of, count) ==
    LET all == Idx(cube.d, cube.n)
    IN  /\ DOMAIN sc \subseteq all
        /\ \A c \in all : \A idx \in 0..(count - 1) :
              /\ Occurrences(ScopeOf(sc, c), idx) <= 1
              /\ Occurrences(ScopeOf(sc, c), idx) = 1 <=> c \in cells_of[idx]
        /\ \A c \in all : \A j \in 1..Len(ScopeOf(sc, c)) :
              ScopeOf(sc, c)[j] \in 0..(count - 1)
        /\ SumOver(all, [c \in all |-> Len(ScopeOf(sc, c))]) = cube.n * count

\* C16: in the scope maps built by get_scopes_enum_np and by
\* get_scopes_enum_coord, for every cell c of [0,n)^d and every line key k,
\* k is in scopes[c] iff c is a cell of line k, k occurs at most once in
\* scopes[c], and the scope lengths add up to n times the number of lines.
C16_ScopeComplete ==
    /\ ScopesNpDone =>
          Complete(cube.scopes_np,
                   [idx \in 0..(Len(cube.lines_np) - 1) |->
                       {unravel_index(cube.lines_np[idx + 1][j], cube.d, cube.n) :
                           j \in 1..cube.n}],
                   Len(cube.lines_np))
    /\ ScopesCoordDone =>
          Complete(cube.scopes_coord,
                   [idx \in 0..(Len(cube.lines_coord) - 1) |->
                       CellSet(cube.lines_coord[idx + 1])],
                   Len(cube.lines_coord))

C16_Witness ==
    /\ ScopesCoordDone /\ cube.d = 3 /\ cube.n = 3
    /\ Len(cube.scopes_coord[<<1, 1, 1>>]) = 13
    /\ Len(cube.scopes_np[<<1, 1, 1>>]) = 13
    /\ Len(cube.scopes_coord[<<0, 1, 1>>]) = 5

\* the corner cells of h(d, n)
Corners == {c \in Idx(cube.d, cube.n) : \A a \in 1..cube.d : c[a] \in {0, cube.n - 1}}
\* the dimensions in which the cells of a line differ
SpanOf(line) == {a \in 1..cube.d : line[1][a] # line[Len(line)][a]}
\* the cell lies on exactly one line for every non-empty subset of dimensions
OneLinePerSubset(c) ==
    /\ c \in DOMAIN cube.scopes_lines
    /\ Len(cube.scopes_lines[c]) = Pow(2, cube.d) - 1
    /\ \A S \in (SUBSET (1..cube.d)) \ {{}} :
          Cardinality({k \in 1..Len(cube.scopes_lines[c]) :
                          SpanOf(cube.scopes_lines[c][k]) = S}) = 1
LargestScope == CHOOSE size \in DOMAIN cube.sizes : \A s2 \in DOMAIN cube.sizes : s2 <= size

\* C17 as stated: for n >= 2 every corner cell lies on exactly one line for
\* every non-empty subset of dimensions (2^d - 1 lines) and no cell has a
\* larger scope than a corner cell.
C17_CornersMaximal ==
    cube.pc = "done" /\ cube.n >= 2 =>
        /\ \A c \in Corners : OneLinePerSubset(c)
        /\ LargestScope = Pow(2, cube.d) - 1

\* C17 as amended: for n >= 2 every corner cell lies on exactly one line for
\* every non-empty subset of dimensions (2^d - 1 lines); no cell has a larger
\* scope than a corner cell when n is even or d = 1, and for odd n and d >= 2
\* the centre cell has the larger scope of (3^d - 1) / 2 lines.
C17_CornersMaximalAmended ==
    cube.pc = "done" /\ cube.n >= 2 =>
        /\ \A c \in Corners : OneLinePerSubset(c)
        /\ \A c \in Corners : c \in cube.sizes[Pow(2, cube.d) - 1]
        /\ (cube.n % 2 = 0 \/ cube.d = 1) => LargestScope = Pow(2, cube.d) - 1
        /\ (cube.n % 2 = 1 /\ cube.d >= 2) =>
              /\ 2 * LargestScope = Pow(3, cube.d) - 1
              /\ cube.sizes[LargestScope] = {[a \in 1..cube.d |-> cube.n \div 2]}

C17_Witness ==
    /\ cube.pc = "done" /\ cube.d = 3 /\ cube.n = 4
    /\ cube.sizes[7] = Corners \cup {c \in Idx(3, 4) : \A a \in 1..3 : c[a] \in {1, 2}}


\* the unordered cell sets of a list of lines
CellSets(lines) == {CellSet(lines[k]) : k \in 1..Len(lines)}
ScopeCellDone ==
    /\ cube.pc \in {"get_scope_cell_coord", "lines_np_coord_check",
                    "scopes_size", "done"}
    /\ cube.cell # <<>>

CheckDone == cube.pc \in {"scopes_size", "done"}
\* the cells that the values of a line of get_lines_np unravel to
CellsNp(line) == {unravel_index(line[j], cube.d, cube.n) : j \in 1..Len(line)}

\* C22: _lines_np_coord_check(d, n) is True: the lines of get_lines_np on the
\* cube numbered 0..n^d-1 and the lines of get_lines_coord(d, n) are the same
\* set of lines, a line taken as the sorted tuple of its cells' numbers (or,
\* which is the same, as the set of its cells).
C22_EnumeratorsAgree ==
    CheckDone =>
        /\ cube.check
        /\ {CellsNp(cube.lines_np[k]) : k \in 1..Len(cube.lines_np)}
               = CellSets(cube.lines_coord)

\* the check has passed on h(3, 4), whose 76 lines include the diagonal
\* from (0, 3, 0) to (3, 0, 3)
C22_Witness ==
    /\ CheckDone /\ cube.check /\ cube.d = 3 /\ cube.n = 4
    /\ Len(cube.lines_np) = 76 /\ Len(cube.lines_coord) = 76
    /\ {<<0, 3, 0>>, <<1, 2, 1>>, <<2, 1, 2>>, <<3, 0, 3>>}
           \in CellSets(cube.lines_coord)


\* C23: for every d, n >= 1 and every cell c the scope of c has the same
\* length in structure_np(d, n), structure_enum_np(d, n), structure_coord(d, n)
\* and structure_enum_coord(d, n), so scopes_size returns the same Counter for
\* the four (for d = 2, n = 3: 4 cells of scope 2, 4 of scope 3, 1 of scope 4).
C23_ScopeSizesAgree ==
    cube.pc = "done" =>
        /\ \A c \in Idx(cube.d, cube.n) :
              /\ Len(ScopeOf(cube.scopes_np, c)) = Len(ScopeOf(cube.scopes_struct_np, c))
              /\ Len(ScopeOf(cube.scopes_lines, c)) = Len(ScopeOf(cube.scopes_struct_np, c))
              /\ Len(ScopeOf(cube.scopes_coord, c)) = Len(ScopeOf(cube.scopes_struct_np, c))
        /\ \A k \in 2..4 : cube.counters[k] = cube.counters[1]
        /\ (cube.d = 2 /\ cube.n = 3) =>
              cube.counters[1] = (2 :> 4) @@ (3 :> 4) @@ (4 :> 1)


\* C30, for the cubes with n >= 2 (on which the coordinate builder does not
\* double its lines): for every d and every index k, line k of
\* get_lines_enum_np on the cube numbered 0..n^d-1 and line k of
\* get_lines_enum_coord(d, n) are the same set of cells, and the scope maps
\* of structure_enum_np(d, n) and structure_enum_coord(d, n) are equal.
C30_LineIdentifiersAgree ==
    (cube.pc # "none" /\ cube.n >= 2) =>
        /\ LinesCoordDone =>
              /\ Len(cube.lines_np) = Len(cube.lines_coord)
              /\ \A k \in 1..Len(cube.lines_np) :
                    CellsNp(cube.lines_np[k]) = CellSet(cube.lines_coord[k])
        /\ ScopesCoordDone => cube.scopes_np = cube.scopes_coord


\* ------------------------------------------------ claims about legal play
\* self.lines of src/TicTacToe.py: all lines of h(d, n), read through the board
Lines == get_lines_np([c \in Idx(d, n) |-> c], d, n)
\* the game with the mark of the last move taken off the board
BeforeLastMove == [self EXCEPT !.board = np_setitem(self, LastMove.Cell, 0)]
\* a move was just made, and no line of lines was filled before it
NewLinePossible(lines) ==
    /\ MoveDone /\ moves # <<>>
    /\ get_lines_state(BeforeLastMove, lines) = -1

\* C18: after a successful legal move on a board on which no line was filled
\* by one player before that move, the full scan over all lines of h(d, n)
\* finds a filled line iff the scan over scopes[cell just played] finds one.
C18_ScopedScanIsFullScan ==
    LET lines == Lines
    IN  NewLinePossible(lines) =>
            (get_lines_state(self, lines) # -1 <=> is_win_scan(self))

C18_Witness ==
    /\ d = 2 /\ n = 3 /\ Len(moves) = 5
    /\ LastMove.Cell = <<2, 0>>
    /\ NewLinePossible(Lines)
    /\ get_lines_state(self, Lines) # -1

\* C20: constructing TicTacToe(d, n, moves_per_turn) fails with an error
\* whenever d < 1, or n < 1, or MOVE_BASE <= n^d.
C20_ConstructionPreconditions ==
    (op = "new" /\ (d < 1 \/ n < 1 \/ MOVE_BASE <= Pow(n, d))) => raised # "none"


\* ------------------------------------------------ claims about move strings
DigitOnly(s) == \A j \in 1..Len(s) : s[j] \in Digits
\* the maximal runs of digits of s, as pairs of first and last position
MaximalRuns(s) ==
    {r \in (1..Len(s)) \X (1..Len(s)) :
        /\ r[1] <= r[2]
        /\ \A j \in r[1]..r[2] : s[j] \in Digits
        /\ r[1] = 1 \/ s[r[1] - 1] \notin Digits
        /\ r[2] = Len(s) \/ s[r[2] + 1] \notin Digits}
\* the number written in decimal at positions i..j of s
RECURSIVE Decimal(_, _, _)
Decimal(s, i, j) ==
    IF i > j THEN 0 ELSE 10 * Decimal(s, i, j - 1) + int(s[j])
\* the coordinates the grammar reads: one per digit of a digit-only string
\* on a board with n <= 9, one per maximal digit run otherwise, less offset
Coordinates(s, nn, offset) ==
    IF DigitOnly(s) /\ nn <= 9
    THEN [j \in 1..Len(s) |-> int(s[j]) - offset]
    ELSE LET runs == MaximalRuns(s)
             nth(k) == CHOOSE r \in runs :
                          Cardinality({q \in runs : q[1] < r[1]}) = k - 1
         IN  [k \in 1..Cardinality(runs) |->
                 Decimal(s, nth(k)[1], nth(k)[2]) - offset]
WellFormed(coords, dd, nn) ==
    /\ Len(coords) = dd
    /\ \A j \in 1..Len(coords) : coords[j] \in 0..(nn - 1)
Returned == parse.pc = "returned"

\* C19 as stated, for the offsets from 0 up (the ones the documentation of
\* str_to_tuple names): the call returns the coordinates of the grammar iff
\* there are exactly d of them, all in [0, n); it raises ValueError iff the
\* string is digit-only with n > 9, or the count differs from d, or a
\* coordinate is outside [0, n); and every cell c of [0,n)^d written as
\* c_i + offset joined by ',' parses to c.
C19_MoveStringGrammar ==
    (Returned /\ parse.offset >= 0) =>
        LET coords == Coordinates(parse.cell, parse.n, parse.offset)
        IN  /\ parse.raised \in {"none", "ValueError"}
            /\ parse.raised = "none" <=> WellFormed(coords, parse.d, parse.n)
            /\ parse.raised = "none" => parse.tup = coords
            /\ parse.raised = "ValueError" <=>
                  \/ DigitOnly(parse.cell) /\ parse.n > 9
                  \/ Len(coords) # parse.d
                  \/ \E j \in 1..Len(coords) : coords[j] \notin 0..(parse.n - 1)
            /\ \A c \in Idx(parse.d, parse.n) :
                  parse.cell = FormatCell(c, parse.offset) =>
                      parse.raised = "none" /\ parse.tup = c

\* C19 as amended: the call returns the coordinates iff the string is not
\* digit-only with n > 9 and there are exactly d coordinates, all in [0, n);
\* it raises ValueError otherwise; every cell c written as c_i + offset >= 0
\* joined by ',' parses to c when d >= 2, or when d = 1, n <= 9 and the one
\* component is written as a single digit.
C19_MoveStringGrammarAmended ==
    Returned =>
        LET coords == Coordinates(parse.cell, parse.n, parse.offset)
            refused == DigitOnly(parse.cell) /\ parse.n > 9
        IN  /\ parse.raised \in {"none", "ValueError"}
            /\ parse.raised = "none" <=>
                  ~refused /\ WellFormed(coords, parse.d, parse.n)
            /\ parse.raised = "none" => parse.tup = coords
            /\ parse.raised = "ValueError" <=>
                  \/ refused
                  \/ Len(coords) # parse.d
                  \/ \E j \in 1..Len(coords) : coords[j] \notin 0..(parse.n - 1)
            /\ \A c \in Idx(parse.d, parse.n) :
                  ( /\ parse.cell = FormatCell(c, parse.offset)
                    /\ \A i \in 1..parse.d : c[i] + parse.offset >= 0
                    /\ \/ parse.d >= 2
                       \/ parse.n <= 9 /\ c[1] + parse.offset <= 9 )
                  => parse.raised = "none" /\ parse.tup = c

\* a cell of the large board written with a two-digit component and read back
C19_Witness ==
    /\ Returned /\ parse.d = 2 /\ parse.n = MaxBigN /\ parse.offset = 1
    /\ parse.cell = FormatCell(<<MaxBigN - 1, 0>>, 1)
    /\ parse.raised = "none" /\ parse.tup = <<MaxBigN - 1, 0>>


====
